---- MODULE Spec2Model ----
(***************************************************************************)
(* A model of the chunking-and-retrieval core of the RAG pipeline:         *)
(* DocumentProcessor (src/src/document_processor.py), VectorDatabase        *)
(* (src/src/vector_database.py), and the callers that put them together:   *)
(* the handlers of src/src/main.py and initialize_database of setup.py.    *)
(*                                                                         *)
(* A Python str is a sequence of one-character strings.  The alphabet has  *)
(* letters, the two whitespace characters " " and "\n", the sentence       *)
(* terminals ".", "!" and "?", the path separator "/", and "#", which      *)
(* stands for a piece of text the tiktoken encoding refuses to encode.     *)
(***************************************************************************)
EXTENDS Integers, Sequences, FiniteSets, TLC

VARIABLES
    chunk_size,      \* self.chunk_size
    text,            \* the argument of create_chunks
    paragraphs,      \* text.split('\n\n')
    pidx,            \* position of "for paragraph in paragraphs"
    sentences,       \* split_into_sentences(paragraph) of the oversized paragraph
    sidx,            \* position of "for sentence in sentences"
    current_chunk,   \* create_chunks local
    current_tokens,  \* create_chunks local
    chunks,          \* create_chunks local: the list returned
    pc,              \* where create_chunks stands
    starts,          \* history: how each flushed chunk was started
    cur_start,       \* history: how current_chunk was started
    flushed_tokens,  \* history: current_tokens at the flush of each chunk
    fs,              \* the file system: what is at each path
    file_path,       \* the argument of the process_file call
    result,          \* what the last process_file call returned or raised
    all_ids,         \* history: metadata["id"] of every chunk ever returned
    next_uuid,       \* the number of uuid4() values drawn so far
    calls,           \* history: the paths of the process_file calls made
    collection,      \* the records of self.collection, by id
    add_out,         \* what add_documents returned, when it was the last call
    search_out,      \* the search_similar_documents call and its outcome, when it was the last call
    registry,        \* the collection the Chroma client holds for self.collection
    op_out,          \* history: the add, update, delete or clear call made last
    race,            \* a search_similar_documents call that runs beside a mutation
    chunk_overlap,   \* self.chunk_overlap
    first_chunks,    \* history: what create_chunks returned to an earlier processor
    services,        \* main.py's globals vector_db and document_processor
    handler,         \* the handler or script that is under way
    response,        \* what the last handler or script answered
    gemini_calls     \* the calls the last handler made on gemini_client

chunkVars == <<chunk_size, text, paragraphs, pidx, sentences, sidx, current_chunk,
               current_tokens, chunks, pc, starts, cur_start, flushed_tokens>>

fileVars == <<fs, file_path, result, all_ids, next_uuid, calls>>

dbVars == <<collection, add_out, search_out, registry, op_out, race>>

runVars == <<chunk_overlap, first_chunks>>

appVars == <<services, handler, response, gemini_calls>>

vars == <<chunkVars, fileVars, dbVars, runVars, appVars>>

-----------------------------------------------------------------------------
(* Bounds of the model *)

MaxLen == 5          \* every text over Alphabet up to this length is a document
MaxChunkSize == 3    \* chunk_size arguments 0..MaxChunkSize for those documents
MaxFileLen == 3      \* every text over Alphabet up to this length is a file content
MaxCalls == 2        \* process_file calls in one behaviour
MaxRecords == 3      \* ids of the chunks offered to add_documents
MaxBatch == 2        \* chunks in one add_documents call
MaxResults == 2      \* n_results arguments -1..MaxResults

(* Program constants *)

CHUNK_SIZE == 1000   \* Config.CHUNK_SIZE
CHUNK_OVERLAP == 200 \* Config.CHUNK_OVERLAP
MAX_OVERLAP_WORDS == 50
CHROMA_DB_PATH == "./chroma_db"
CHROMA_COLLECTION_NAME == "llms_docs"
EMBEDDING_MODEL == "all-MiniLM-L6-v2"

-----------------------------------------------------------------------------
(* Python str and list operations *)

Min(a, b) == IF a <= b THEN a ELSE b

Whitespace == {" ", "\n"}
Letters == {"a", "b"}
Terminals == {".", "!", "?", "\n"}
Unencodable == "#"

IsWs(c) == c \in Whitespace

Idx(s) == [i \in 1..Len(s) |-> i]

WordStartAt(s, i) == ~IsWs(s[i]) /\ (i = 1 \/ IsWs(s[i - 1]))
WordEndAt(s, i) == ~IsWs(s[i]) /\ (i = Len(s) \/ IsWs(s[i + 1]))

\* str.split(): the maximal runs of non-whitespace characters, in order
Split(s) ==
    LET st == SelectSeq(Idx(s), LAMBDA i : WordStartAt(s, i))
        en == SelectSeq(Idx(s), LAMBDA i : WordEndAt(s, i))
    IN  [k \in 1..Len(st) |-> SubSeq(s, st[k], en[k])]

\* str.strip(): without the leading and trailing whitespace
Strip(s) ==
    LET st == SelectSeq(Idx(s), LAMBDA i : WordStartAt(s, i))
        en == SelectSeq(Idx(s), LAMBDA i : WordEndAt(s, i))
    IN  IF Len(st) = 0 THEN << >> ELSE SubSeq(s, st[1], en[Len(en)])

RECURSIVE JoinRange(_, _, _, _)
JoinRange(sep, parts, lo, hi) ==
    IF lo > hi THEN << >>
    ELSE IF lo = hi THEN parts[lo]
    ELSE LET mid == (lo + hi) \div 2
         IN  JoinRange(sep, parts, lo, mid) \o sep \o JoinRange(sep, parts, mid + 1, hi)

\* sep.join(parts)
Join(sep, parts) == JoinRange(sep, parts, 1, Len(parts))

\* parts[-n:] for 1 <= n <= len(parts)
LastN(parts, n) == SubSeq(parts, Len(parts) - n + 1, Len(parts))

\* the number of "\n" directly before position i
NewlinesBefore(s, i) ==
    Cardinality({j \in 1..(i - 1) : \A k \in j..(i - 1) : s[k] = "\n"})

\* text.split('\n\n') finds its separators left to right, without overlap: in
\* a run of newlines the separators start at the run's 1st, 3rd, ... character
SeparatorAt(s, i) ==
    /\ i < Len(s)
    /\ s[i] = "\n"
    /\ s[i + 1] = "\n"
    /\ NewlinesBefore(s, i) % 2 = 0

\* text.split('\n\n')
SplitParagraphs(s) ==
    LET seps == SelectSeq(Idx(s), LAMBDA i : SeparatorAt(s, i))
        m == Len(seps)
    IN  [k \in 1..(m + 1) |->
            SubSeq(s, IF k = 1 THEN 1 ELSE seps[k - 1] + 2,
                      IF k = m + 1 THEN Len(s) ELSE seps[k] - 1)]

-----------------------------------------------------------------------------
(* DocumentProcessor *)

\* self.encoding.encode(text) raises on text it refuses
EncodeFails(s) == \E i \in 1..Len(s) : s[i] = Unencodable

\* A token of the encoding begins at i.  The model of cl100k_base: a run of
\* letters is one token (a space before it is part of that token), a
\* punctuation character is one token, a run of newlines is one token.
TokenStartAt(s, i) ==
    \/ s[i] \in Letters /\ (i = 1 \/ s[i - 1] \notin Letters)
    \/ s[i] \notin Letters \cup Whitespace
    \/ s[i] = "\n" /\ (i = 1 \/ s[i - 1] # "\n")

\* len(self.encoding.encode(text))
EncodedLength(s) == Len(SelectSeq(Idx(s), LAMBDA i : TokenStartAt(s, i)))

\* count_tokens without the except clause
CountWithoutFallback(s) == EncodedLength(s)

\* count_tokens: len(self.encoding.encode(text)), and when encode raises
\* len(text.split()) * 2
count_tokens(s) ==
    IF EncodeFails(s) THEN Len(Split(s)) * 2 ELSE EncodedLength(s)

\* split_into_sentences without its last step, "if current.strip(): append"
SentencesWithoutRest(s) ==
    LET ends == SelectSeq(Idx(s), LAMBDA i : s[i] \in Terminals)
        span(k) == SubSeq(s, IF k = 1 THEN 1 ELSE ends[k - 1] + 1, ends[k])
        spans == [k \in 1..Len(ends) |-> Strip(span(k))]
    IN  SelectSeq(spans, LAMBDA x : x # << >>)

\* split_into_sentences with "." as the only terminal character
SentencesAtPeriods(s) ==
    LET ends == SelectSeq(Idx(s), LAMBDA i : s[i] = "." \/ i = Len(s))
        span(k) == SubSeq(s, IF k = 1 THEN 1 ELSE ends[k - 1] + 1, ends[k])
        spans == [k \in 1..Len(ends) |-> Strip(span(k))]
    IN  SelectSeq(spans, LAMBDA x : x # << >>)

\* split_into_sentences: a sentence ends at each terminal character and at the
\* end of the text; each span is stripped and the empty ones are dropped
split_into_sentences(s) ==
    LET ends == SelectSeq(Idx(s), LAMBDA i : s[i] \in Terminals \/ i = Len(s))
        span(k) == SubSeq(s, IF k = 1 THEN 1 ELSE ends[k - 1] + 1, ends[k])
        spans == [k \in 1..Len(ends) |-> Strip(span(k))]
    IN  SelectSeq(spans, LAMBDA x : x # << >>)

\* the overlap window taken from self.chunk_overlap
OverlapWordsConfigured(words) == Min(Len(words), chunk_overlap)

\* min(len(words), 50)
OverlapWords(words) == Min(Len(words), MAX_OVERLAP_WORDS)

\* the overlap taken from the head of the chunk, words[:overlap_words]
OverlapFromHead(chunk) ==
    LET words == Split(chunk)
    IN  Join(<<" ">>, SubSeq(words, 1, OverlapWords(words)))

\* ' '.join(words[-overlap_words:])
OverlapText(chunk) ==
    LET words == Split(chunk)
    IN  Join(<<" ">>, LastN(words, OverlapWords(words)))

\* current_chunk = overlap_text + sep + piece
SeedWithOverlap(chunk, sep, piece) == OverlapText(chunk) \o sep \o piece

\* current_chunk += sep + piece if current_chunk else piece
AppendPiece(chunk, sep, piece) ==
    IF chunk # << >> THEN chunk \o sep \o piece ELSE piece

\* self.chunk_size = chunk_size if chunk_size > 0 else Config.CHUNK_SIZE
InitChunkSize(arg) == IF arg > 0 THEN arg ELSE CHUNK_SIZE

\* self.chunk_overlap = chunk_overlap if chunk_overlap > 0 else Config.CHUNK_OVERLAP
InitChunkOverlap(arg) == IF arg > 0 THEN arg ELSE CHUNK_OVERLAP

\* current_tokens + paragraph_tokens <= self.chunk_size
FitsStrictly(size, tokens, piece_tokens) == tokens + piece_tokens < size
Fits(size, tokens, piece_tokens) == tokens + piece_tokens <= size

ParagraphSep == <<"\n", "\n">>
SentenceSep == <<" ">>

NoStart == [overlap |-> 0, indep |-> FALSE]

-----------------------------------------------------------------------------
(* The documents *)

Alphabet == {"a", "b", " ", "\n", "."}

SmallDocs == UNION {[1..n -> Alphabet] : n \in 0..MaxLen}

\* the i-th word of a long document
WordAt(i) == IF i % 3 = 0 THEN <<"b">> ELSE <<"a">>

\* n one-letter words, the words from + 1 .. from + n, a space between them
WordsPara(from, n) ==
    [j \in 1..(2 * n - 1) |-> IF j % 2 = 1 THEN WordAt(from + (j + 1) \div 2)[1] ELSE " "]

\* n sentences of w words each, every sentence closed by term
SentencesPara(n, w, term) ==
    [j \in 1..(2 * n * w) |->
        IF j % 2 = 1 THEN WordAt((j + 1) \div 2)[1]
        ELSE IF j % (2 * w) = 0 THEN term ELSE " "]

\* three paragraphs of 400 tokens each
Doc400 == WordsPara(0, 400) \o ParagraphSep \o WordsPara(400, 400)
          \o ParagraphSep \o WordsPara(800, 400)

\* chunks of more than 50 words: the overlap is cut at 50 words
DocLongParas == WordsPara(0, 58) \o ParagraphSep \o WordsPara(58, 7)
                \o ParagraphSep \o WordsPara(65, 3)
DocLongSentences == WordsPara(0, 4) \o ParagraphSep \o SentencesPara(13, 5, "?")
                    \o ParagraphSep \o WordsPara(65, 3)
DocUnencodable == <<"a", " ", "#", "\n", "\n", "b", "!", " ", "a", " ", "b">>

LongInputs == {<<Doc400, 0>>, <<DocLongParas, 60>>, <<DocLongSentences, 60>>,
               <<DocUnencodable, 3>>, <<DocUnencodable, 1>>, <<DocUnencodable, 0>>}

ChunkInputs == (SmallDocs \X (0..MaxChunkSize)) \cup LongInputs

-----------------------------------------------------------------------------
(* create_chunks, one action for each way through the body of its loops *)

\* chunks = [], paragraphs = text.split('\n\n'), current_chunk = "", current_tokens = 0
EnterCreateChunks(t) ==
    /\ text = t
    /\ paragraphs = SplitParagraphs(t)
    /\ pidx = 1
    /\ sentences = << >>
    /\ sidx = 1
    /\ current_chunk = << >>
    /\ current_tokens = 0
    /\ chunks = << >>
    /\ starts = << >>
    /\ cur_start = NoStart
    /\ flushed_tokens = << >>
    /\ pc = "paragraphs"

NoResult == [kind |-> "none"]

\* what get_or_create_collection and create_collection register with the client
TheCollection == [name |-> CHROMA_COLLECTION_NAME, embedding_model |-> EMBEDDING_MODEL]

\* the client holds no collection of that name
NoCollection == [name |-> "none"]

\* the collection is empty and no VectorDatabase call was made
NoDb ==
    /\ collection = << >>
    /\ add_out = "none"
    /\ search_out = [kind |-> "none"]
    /\ registry = TheCollection
    /\ op_out = NoResult
    /\ race = NoResult

\* the processor was made without a chunk_overlap argument, and is the first
NoRun ==
    /\ chunk_overlap = CHUNK_OVERLAP
    /\ first_chunks = NoResult

\* main.py's globals as the module sets them, no handler called
Unbound == "None"
NoApp ==
    /\ services = Unbound
    /\ handler = "idle"
    /\ response = NoResult
    /\ gemini_calls = 0

\* no process_file call is made or was made
NoFiles ==
    /\ fs = << >>
    /\ file_path = << >>
    /\ result = NoResult
    /\ all_ids = << >>
    /\ next_uuid = 0
    /\ calls = << >>

InitChunks ==
    \E in \in ChunkInputs :
        /\ chunk_size = InitChunkSize(in[2])
        /\ EnterCreateChunks(in[1])
        /\ NoFiles
        /\ NoDb
        /\ NoRun
        /\ NoApp

\* chunks.append(current_chunk.strip())
Flush ==
    /\ chunks' = Append(chunks, Strip(current_chunk))
    /\ starts' = Append(starts, cur_start)
    /\ flushed_tokens' = Append(flushed_tokens, current_tokens)

NoFlush == UNCHANGED <<chunks, starts, flushed_tokens>>

AtParagraph == pc = "paragraphs" /\ pidx <= Len(paragraphs)
\* the paragraph as text.split('\n\n') gives it, not stripped
ParagraphAsSplit == paragraphs[pidx]
\* paragraph = paragraph.strip()
Paragraph == Strip(paragraphs[pidx])

\* if not paragraph: continue
SkipEmptyParagraph ==
    /\ AtParagraph
    /\ UNCHANGED <<fileVars, dbVars, runVars, appVars>>
    /\ Paragraph = << >>
    /\ pidx' = pidx + 1
    /\ UNCHANGED <<chunk_size, text, paragraphs, sentences, sidx, current_chunk,
                   current_tokens, chunks, pc, starts, cur_start, flushed_tokens>>

\* if paragraph_tokens > self.chunk_size: flush, and split into sentences
OversizedParagraph ==
    /\ AtParagraph
    /\ UNCHANGED <<fileVars, dbVars, runVars, appVars>>
    /\ Paragraph # << >>
    /\ count_tokens(Paragraph) > chunk_size
    /\ IF current_chunk # << >>
       THEN /\ Flush
            /\ current_chunk' = << >>
            /\ current_tokens' = 0
            /\ cur_start' = [overlap |-> 0, indep |-> TRUE]
       ELSE /\ NoFlush
            /\ UNCHANGED <<current_chunk, current_tokens, cur_start>>
    /\ sentences' = split_into_sentences(Paragraph)
    /\ sidx' = 1
    /\ pc' = "sentences"
    /\ UNCHANGED <<chunk_size, text, paragraphs, pidx>>

\* elif current_tokens + paragraph_tokens <= self.chunk_size
ParagraphFits ==
    /\ AtParagraph
    /\ UNCHANGED <<fileVars, dbVars, runVars, appVars>>
    /\ Paragraph # << >>
    /\ count_tokens(Paragraph) <= chunk_size
    /\ Fits(chunk_size, current_tokens, count_tokens(Paragraph))
    /\ current_chunk' = AppendPiece(current_chunk, ParagraphSep, Paragraph)
    /\ current_tokens' = current_tokens + count_tokens(Paragraph)
    /\ pidx' = pidx + 1
    /\ NoFlush
    /\ UNCHANGED <<chunk_size, text, paragraphs, sentences, sidx, pc, cur_start>>

\* else: flush and start a new chunk with the overlap
ParagraphOverflows ==
    /\ AtParagraph
    /\ UNCHANGED <<fileVars, dbVars, runVars, appVars>>
    /\ Paragraph # << >>
    /\ count_tokens(Paragraph) <= chunk_size
    /\ ~Fits(chunk_size, current_tokens, count_tokens(Paragraph))
    /\ IF current_chunk # << >>
       THEN /\ Flush
            /\ current_chunk' = SeedWithOverlap(current_chunk, ParagraphSep, Paragraph)
            /\ current_tokens' = count_tokens(current_chunk')
            /\ cur_start' = [overlap |-> OverlapWords(Split(current_chunk)),
                             indep |-> FALSE]
       ELSE /\ NoFlush
            /\ current_chunk' = Paragraph
            /\ current_tokens' = count_tokens(Paragraph)
            /\ UNCHANGED cur_start
    /\ pidx' = pidx + 1
    /\ UNCHANGED <<chunk_size, text, paragraphs, sentences, sidx, pc>>

AtSentence == pc = "sentences" /\ sidx <= Len(sentences)
\* the sentence cut off before its last character
SentenceCut == SubSeq(sentences[sidx], 1, Len(sentences[sidx]) - 1)
Sentence == sentences[sidx]

\* if current_tokens + sentence_tokens > self.chunk_size
SentenceOverflows ==
    /\ AtSentence
    /\ UNCHANGED <<fileVars, dbVars, runVars, appVars>>
    /\ ~Fits(chunk_size, current_tokens, count_tokens(Sentence))
    /\ IF current_chunk # << >>
       THEN /\ Flush
            /\ current_chunk' = SeedWithOverlap(current_chunk, SentenceSep, Sentence)
            /\ current_tokens' = count_tokens(current_chunk')
            /\ cur_start' = [overlap |-> OverlapWords(Split(current_chunk)),
                             indep |-> FALSE]
       ELSE /\ NoFlush
            /\ current_chunk' = Sentence
            /\ current_tokens' = count_tokens(Sentence)
            /\ UNCHANGED cur_start
    /\ sidx' = sidx + 1
    /\ UNCHANGED <<chunk_size, text, paragraphs, pidx, sentences, pc>>

\* else: current_chunk += ' ' + sentence if current_chunk else sentence
SentenceFits ==
    /\ AtSentence
    /\ UNCHANGED <<fileVars, dbVars, runVars, appVars>>
    /\ Fits(chunk_size, current_tokens, count_tokens(Sentence))
    /\ current_chunk' = AppendPiece(current_chunk, SentenceSep, Sentence)
    /\ current_tokens' = current_tokens + count_tokens(Sentence)
    /\ sidx' = sidx + 1
    /\ NoFlush
    /\ UNCHANGED <<chunk_size, text, paragraphs, pidx, sentences, pc, cur_start>>

\* the sentences of the oversized paragraph are used up: the next paragraph
SentencesDone ==
    /\ pc = "sentences"
    /\ sidx > Len(sentences)
    /\ UNCHANGED <<fileVars, dbVars, runVars, appVars>>
    /\ pc' = "paragraphs"
    /\ pidx' = pidx + 1
    /\ UNCHANGED <<chunk_size, text, paragraphs, sentences, sidx, current_chunk,
                   current_tokens, chunks, starts, cur_start, flushed_tokens>>

\* if current_chunk: chunks.append(current_chunk.strip()); return chunks
ReturnChunks ==
    /\ pc = "paragraphs"
    /\ pidx > Len(paragraphs)
    /\ UNCHANGED <<fileVars, dbVars, runVars, appVars>>
    /\ IF current_chunk # << >> THEN Flush ELSE NoFlush
    /\ pc' = "returned"
    /\ UNCHANGED <<chunk_size, text, paragraphs, pidx, sentences, sidx, current_chunk,
                   current_tokens, cur_start>>

Returned == pc = "returned"

NextChunks ==
    \/ SkipEmptyParagraph
    \/ OversizedParagraph
    \/ ParagraphFits
    \/ ParagraphOverflows
    \/ SentenceOverflows
    \/ SentenceFits
    \/ SentencesDone
    \/ ReturnChunks

SpecChunks == InitChunks /\ [][NextChunks]_vars

-----------------------------------------------------------------------------
(* Two processors that differ in chunk_overlap, one after the other on the    *)
(* same text                                                                  *)

\* the chunk_overlap arguments: the default, below and above the 50 words
OverlapArgs == {0, 1, 60}

OverlapInputs ==
    ({d \in SmallDocs : Len(d) <= MaxFileLen} \X (0..MaxChunkSize))
    \cup {<< <<"a", " ", "b", "\n", "\n", "a">>, 2 >>,
          << <<"a", " ", "b", ".", "a", " ", "b", ".", "a">>, 3 >>}
    \cup LongInputs

InitOverlap ==
    \E in \in OverlapInputs, arg \in OverlapArgs :
        /\ chunk_size = InitChunkSize(in[2])
        /\ chunk_overlap = InitChunkOverlap(arg)
        /\ first_chunks = NoResult
        /\ EnterCreateChunks(in[1])
        /\ NoFiles
        /\ NoDb
        /\ NoApp

\* DocumentProcessor(chunk_size, another chunk_overlap).create_chunks(text),
\* after the first processor returned
SecondProcessor ==
    \E arg \in OverlapArgs :
        /\ pc = "returned"
        /\ first_chunks = NoResult
        /\ InitChunkOverlap(arg) # chunk_overlap
        /\ first_chunks' = [kind |-> "returned", value |-> chunks,
                            chunk_overlap |-> chunk_overlap]
        /\ chunk_overlap' = InitChunkOverlap(arg)
        /\ paragraphs' = SplitParagraphs(text)
        /\ pidx' = 1
        /\ sentences' = << >>
        /\ sidx' = 1
        /\ current_chunk' = << >>
        /\ current_tokens' = 0
        /\ chunks' = << >>
        /\ starts' = << >>
        /\ cur_start' = NoStart
        /\ flushed_tokens' = << >>
        /\ pc' = "paragraphs"
        /\ UNCHANGED <<chunk_size, text>>
        /\ UNCHANGED <<fileVars, dbVars, appVars>>

NextOverlap ==
    \/ SkipEmptyParagraph
    \/ OversizedParagraph
    \/ ParagraphFits
    \/ ParagraphOverflows
    \/ SentenceOverflows
    \/ SentenceFits
    \/ SentencesDone
    \/ ReturnChunks
    \/ SecondProcessor

SpecOverlap == InitOverlap /\ [][NextOverlap]_vars

-----------------------------------------------------------------------------
(* read_file, create_chunk_metadata and process_file *)

Missing == [kind |-> "missing"]
\* the path exists and open() or f.read() raises: a directory, bytes that are
\* not UTF-8, no permission
Unreadable == [kind |-> "unreadable"]
File(content) == [kind |-> "file", content |-> content]

Raised(type, msg) == [kind |-> "raised", type |-> type, msg |-> msg]
Returned_(value) == [kind |-> "returned", value |-> value]

\* read_file without "if not content.strip(): raise ValueError"
ReadAcceptsBlank(entry) ==
    IF entry.kind = "missing" THEN Raised("FileNotFoundError", <<"no existe">>)
    ELSE IF entry.kind = "unreadable"
         THEN Raised("Exception", <<"Error al leer archivo", "OSError">>)
    ELSE Returned_(entry.content)

\* read_file on what is at the path.  FileNotFoundError passes through; every
\* other exception, the ValueError of the empty file too, is caught and
\* replaced by Exception("Error al leer archivo ...: " + str(e))
read_file(entry) ==
    IF entry.kind = "missing" THEN Raised("FileNotFoundError", <<"no existe">>)
    ELSE IF entry.kind = "unreadable"
         THEN Raised("Exception", <<"Error al leer archivo", "OSError">>)
    ELSE IF Strip(entry.content) = << >>
         THEN Raised("Exception", <<"Error al leer archivo", "esta vacio">>)
    ELSE Returned_(entry.content)

\* os.path.basename: what follows the last "/"
Basename(path) ==
    LET slashes == SelectSeq(Idx(path), LAMBDA i : path[i] = "/")
    IN  IF Len(slashes) = 0 THEN path
        ELSE SubSeq(path, slashes[Len(slashes)] + 1, Len(path))

\* str(uuid.uuid4()), the n-th value drawn: a random 122-bit value, taken to
\* differ from every value drawn before
Uuid4(n) == <<"uuid4", n>>

\* the metadata with the id made from the sequence number
MetadataIdFromChunkId(chunk, chunk_id, source_file, uuid) ==
    [id |-> <<"uuid4", chunk_id>>,
     chunk_id |-> chunk_id,
     source |-> Basename(source_file),
     source_path |-> source_file,
     tokens |-> count_tokens(chunk),
     characters |-> Len(chunk)]

\* the metadata with the tokens taken from the counter kept while chunking
MetadataFromCounter(chunk, chunk_id, source_file, uuid) ==
    [id |-> uuid,
     chunk_id |-> chunk_id,
     source |-> Basename(source_file),
     source_path |-> source_file,
     tokens |-> flushed_tokens[chunk_id + 1],
     characters |-> Len(chunk)]

create_chunk_metadata(chunk, chunk_id, source_file, uuid) ==
    [id |-> uuid,
     chunk_id |-> chunk_id,
     source |-> Basename(source_file),
     source_path |-> source_file,
     tokens |-> count_tokens(chunk),
     characters |-> Len(chunk)]

\* enumerate(chunks, 1)
EnumerateFromOne(k) == k

\* the i of "for i, chunk in enumerate(chunks)" at the k-th chunk
Enumerate(k) == k - 1

\* processed_chunks, the uuid4 values number drawn + 1, drawn + 2, ...
ProcessedChunks(chs, path, drawn) ==
    [k \in 1..Len(chs) |->
        [content |-> chs[k],
         metadata |-> create_chunk_metadata(chs[k], Enumerate(k), path, Uuid4(drawn + k))]]

MainPath == <<"d", "/", "f">>
OtherPath == <<"g">>
MissingPath == <<"d", "/", "m">>
DirPath == <<"d", "/">>
Paths == {MainPath, OtherPath, MissingPath, DirPath}

OtherDoc == <<"b", ".", " ", "a", "\n", "\n", "b">>

FileDocs == {d \in SmallDocs : Len(d) <= MaxFileLen}
            \cup {<<"a", "\n", "\n", "b">>, <<"a", " ", "b", "\n", "\n", "a", ".", " ", "b">>,
                  <<"a", "\n", "\n", "b", "\n", "\n", "a", " ", "b">>,
                  <<" ", "\n", "\n", "\n", " ">>, DocUnencodable, DocLongParas}

\* no create_chunks call has been made
InitFiles ==
    /\ chunk_size \in {InitChunkSize(arg) : arg \in 0..MaxChunkSize}
    /\ \E doc \in FileDocs :
        fs = [p \in Paths |->
                IF p = MainPath THEN File(doc)
                ELSE IF p = OtherPath THEN File(OtherDoc)
                ELSE IF p = MissingPath THEN Missing
                ELSE Unreadable]
    /\ file_path = << >>
    /\ result = NoResult
    /\ all_ids = << >>
    /\ next_uuid = 0
    /\ calls = << >>
    /\ text = << >>
    /\ paragraphs = << >>
    /\ pidx = 1
    /\ sentences = << >>
    /\ sidx = 1
    /\ current_chunk = << >>
    /\ current_tokens = 0
    /\ chunks = << >>
    /\ starts = << >>
    /\ cur_start = NoStart
    /\ flushed_tokens = << >>
    /\ pc = "idle"
    /\ NoDb
    /\ NoRun
    /\ NoApp

CanCall == pc = "idle" /\ Len(calls) < MaxCalls

\* process_file(path) when read_file raises: process_file prints the
\* exception and raises it again
ProcessMissingFile ==
    \E path \in Paths :
        /\ CanCall
        /\ fs[path].kind = "missing"
        /\ file_path' = path
        /\ result' = read_file(fs[path])
        /\ calls' = Append(calls, path)
        /\ UNCHANGED <<fs, all_ids, next_uuid>>
        /\ UNCHANGED chunkVars
        /\ UNCHANGED <<dbVars, runVars, appVars>>

ProcessUnreadableFile ==
    \E path \in Paths :
        /\ CanCall
        /\ fs[path].kind = "unreadable"
        /\ file_path' = path
        /\ result' = read_file(fs[path])
        /\ calls' = Append(calls, path)
        /\ UNCHANGED <<fs, all_ids, next_uuid>>
        /\ UNCHANGED chunkVars
        /\ UNCHANGED <<dbVars, runVars, appVars>>

ProcessEmptyFile ==
    \E path \in Paths :
        /\ CanCall
        /\ fs[path].kind = "file"
        /\ read_file(fs[path]).kind = "raised"
        /\ file_path' = path
        /\ result' = read_file(fs[path])
        /\ calls' = Append(calls, path)
        /\ UNCHANGED <<fs, all_ids, next_uuid>>
        /\ UNCHANGED chunkVars
        /\ UNCHANGED <<dbVars, runVars, appVars>>

\* process_file(path): read_file returns the content, create_chunks(content) begins
ProcessFileReads ==
    \E path \in Paths :
        /\ CanCall
        /\ read_file(fs[path]).kind = "returned"
        /\ file_path' = path
        /\ calls' = Append(calls, path)
        /\ text' = read_file(fs[path]).value
        /\ paragraphs' = SplitParagraphs(text')
        /\ pidx' = 1
        /\ sentences' = << >>
        /\ sidx' = 1
        /\ current_chunk' = << >>
        /\ current_tokens' = 0
        /\ chunks' = << >>
        /\ starts' = << >>
        /\ cur_start' = NoStart
        /\ flushed_tokens' = << >>
        /\ pc' = "paragraphs"
        /\ UNCHANGED <<chunk_size, fs, result, all_ids, next_uuid>>
        /\ UNCHANGED <<dbVars, runVars, appVars>>

\* process_file after create_chunks: the metadata of each chunk, the
\* statistics (min() and max() raise ValueError on an empty list), the return
ProcessFileReturns ==
    /\ pc = "returned"
    /\ LET processed == ProcessedChunks(chunks, file_path, next_uuid)
       IN  /\ result' = IF Len(processed) = 0
                        THEN Raised("ValueError", <<"min() arg is an empty sequence">>)
                        ELSE Returned_(processed)
           /\ all_ids' = all_ids \o [k \in 1..Len(processed) |-> processed[k].metadata.id]
    /\ next_uuid' = next_uuid + Len(chunks)
    /\ pc' = "idle"
    /\ UNCHANGED <<chunk_size, text, paragraphs, pidx, sentences, sidx, current_chunk,
                   current_tokens, chunks, starts, cur_start, flushed_tokens>>
    /\ UNCHANGED <<fs, file_path, calls>>
    /\ UNCHANGED <<dbVars, runVars, appVars>>

NextFiles ==
    \/ ProcessMissingFile
    \/ ProcessUnreadableFile
    \/ ProcessEmptyFile
    \/ ProcessFileReads
    \/ SkipEmptyParagraph
    \/ OversizedParagraph
    \/ ParagraphFits
    \/ ParagraphOverflows
    \/ SentenceOverflows
    \/ SentenceFits
    \/ SentencesDone
    \/ ReturnChunks
    \/ ProcessFileReturns

SpecFiles == InitFiles /\ [][NextFiles]_vars

-----------------------------------------------------------------------------
(* VectorDatabase: generate_embeddings, add_documents, search_similar_documents *)

\* self.embedding_model.encode([text])[0]: the vector of a text, one dimension
Embed(s) == Len(SelectSeq(s, LAMBDA c : c = "a"))

\* the distance of the collection: squared L2, Chroma's default space
Distance(u, v) == (u - v) * (u - v)

\* self.collection.count()
Count == Cardinality(DOMAIN collection)

EmptyResult == [documents |-> << >>, metadatas |-> << >>, distances |-> << >>]

\* collection.query that answers with every record, whatever n is
RankingsOfAll(e, n) ==
    {o \in [1..Count -> DOMAIN collection] :
        \A i, j \in 1..Count : i < j =>
            /\ o[i] # o[j]
            /\ Distance(e, collection[o[i]].embedding)
                  <= Distance(e, collection[o[j]].embedding)}

\* the answers collection.query may give for n results nearest to the vector
\* e: n different stored ids, nearest first, none nearer left out; records at
\* the same distance come in any order
Rankings(e, n) ==
    IF n <= 0 THEN {<< >>}
    ELSE {o \in [1..n -> DOMAIN collection] :
            /\ \A i, j \in 1..n : i < j =>
                /\ o[i] # o[j]
                /\ Distance(e, collection[o[i]].embedding)
                      <= Distance(e, collection[o[j]].embedding)
            /\ \A id \in DOMAIN collection :
                (\A i \in 1..n : o[i] # id) =>
                    Distance(e, collection[o[n]].embedding)
                      <= Distance(e, collection[id].embedding)}

Outcome(kind, value, embed_calls, store_calls) ==
    [kind |-> kind, value |-> value, embed_calls |-> embed_calls,
     store_calls |-> store_calls]

\* "if not query:"
IsEmptyQuery(query) == query = << >>

\* "if not query.strip():"
IsBlankQuery(query) == Strip(query) = << >>

\* the try block of search_similar_documents.  embed_ok: encode() does not
\* raise; store_ok: the collection does not raise; order: the collection's
\* answer.  collection.query raises when asked for n_results <= 0.
SearchTry(query, n_results, embed_ok, store_ok, order) ==
    IF IsBlankQuery(query) THEN Outcome("returned", EmptyResult, 0, 0)
    ELSE IF ~embed_ok THEN Outcome("raised", "Error al generar embeddings", 1, 0)
    ELSE IF ~store_ok \/ Min(n_results, Count) <= 0
         THEN Outcome("raised", "chromadb error", 1, 1)
    ELSE Outcome("returned",
                 [documents |-> [k \in 1..Len(order) |-> collection[order[k]].document],
                  metadatas |-> [k \in 1..Len(order) |-> collection[order[k]].metadata],
                  distances |-> [k \in 1..Len(order) |->
                      Distance(Embed(query), collection[order[k]].embedding)]],
                 1, 1)

\* search_similar_documents with an except clause that raises again
SearchRaisesAgain(query, n_results, embed_ok, store_ok, order) ==
    SearchTry(query, n_results, embed_ok, store_ok, order)

\* search_similar_documents: the try block, and "except Exception" returning
\* the empty result
search_similar_documents(query, n_results, embed_ok, store_ok, order) ==
    LET try == SearchTry(query, n_results, embed_ok, store_ok, order)
    IN  IF try.kind = "raised"
        THEN Outcome("returned", EmptyResult, try.embed_calls, try.store_calls)
        ELSE try

\* the content of the chunk number n offered to add_documents; the chunks 1
\* and 3 have the same content, and so the same vector
PoolContent(n) == IF n % 2 = 1 THEN <<"a">> ELSE <<"b", " ", "a", " ", "a">>

\* the chunk number n of a processed file
DbChunk(n) ==
    [content |-> PoolContent(n),
     metadata |-> create_chunk_metadata(PoolContent(n), n - 1, MainPath, Uuid4(n))]

ChunkPool == {DbChunk(n) : n \in 1..MaxRecords}

\* the batches offered to add_documents: chunks of the pool in the order of a
\* processed file, and the batch that names the first chunk twice
Batches ==
    {b \in UNION {[1..n -> ChunkPool] : n \in 0..MaxBatch} :
        \A i, j \in 1..Len(b) : i < j => b[i].metadata.chunk_id < b[j].metadata.chunk_id}
    \cup {<<DbChunk(1), DbChunk(1)>>}

Queries == {<< >>, <<"\n", " ">>, <<"a">>, <<" ", "b">>, <<"a", " ", "a", "\n">>}
NResults == (-1)..MaxResults

\* the record with the vector of the empty text
RecordOfNoText(chunk) ==
    [document |-> chunk.content, embedding |-> Embed(<< >>), metadata |-> chunk.metadata]

Record(chunk) ==
    [document |-> chunk.content, embedding |-> Embed(chunk.content),
     metadata |-> chunk.metadata]

\* the collection after collection.add(batch) went through: the ids already
\* stored keep their records
CollectionAdd(batch) ==
    LET new == {batch[k].metadata.id : k \in 1..Len(batch)} \ DOMAIN collection
    IN  [id \in DOMAIN collection \cup new |->
            IF id \in DOMAIN collection THEN collection[id]
            ELSE Record(CHOOSE c \in {batch[k] : k \in 1..Len(batch)} : c.metadata.id = id)]

\* collection.add refuses a batch that names an id twice
BatchIdsDistinct(batch) ==
    \A i, j \in 1..Len(batch) : i # j => batch[i].metadata.id # batch[j].metadata.id

InitSearch ==
    /\ chunk_size = CHUNK_SIZE
    /\ text = << >>
    /\ paragraphs = << >>
    /\ pidx = 1
    /\ sentences = << >>
    /\ sidx = 1
    /\ current_chunk = << >>
    /\ current_tokens = 0
    /\ chunks = << >>
    /\ starts = << >>
    /\ cur_start = NoStart
    /\ flushed_tokens = << >>
    /\ pc = "idle"
    /\ NoFiles
    /\ NoDb
    /\ NoRun
    /\ NoApp

\* self.collection is a collection the client still holds
Live == registry # NoCollection

NoSearch == [kind |-> "none"]

\* a mutating call's outcome: what it returns and what it leaves in the store
Mutation(out, store, held) == [out |-> out, collection |-> store, registry |-> held]

\* collection.update that leaves the vector of the record as it was
UpdateKeepsVector(doc_id, content, metadata) ==
    [id \in DOMAIN collection |->
        IF id = doc_id
        THEN [document |-> content, embedding |-> collection[id].embedding,
              metadata |-> metadata]
        ELSE collection[id]]

\* the collection after collection.update(ids=[doc_id], ...) went through: an
\* id that is not stored is passed over
CollectionUpdate(doc_id, content, metadata) ==
    [id \in DOMAIN collection |->
        IF id = doc_id
        THEN [document |-> content, embedding |-> Embed(content), metadata |-> metadata]
        ELSE collection[id]]

\* the collection after collection.delete(ids=[doc_id]) went through
CollectionDelete(doc_id) ==
    [id \in DOMAIN collection \ {doc_id} |-> collection[id]]

\* update_document: True unless generate_embeddings or collection.update raises
update_document(doc_id, content, metadata, embed_ok, store_ok) ==
    IF ~embed_ok \/ ~store_ok \/ ~Live THEN Mutation(FALSE, collection, registry)
    ELSE Mutation(TRUE, CollectionUpdate(doc_id, content, metadata), registry)

\* delete_document that empties the collection
DeleteEverything(doc_id, store_ok) ==
    IF ~store_ok \/ ~Live THEN Mutation(FALSE, collection, registry)
    ELSE Mutation(TRUE, << >>, registry)

\* delete_document: True unless collection.delete raises
delete_document(doc_id, store_ok) ==
    IF ~store_ok \/ ~Live THEN Mutation(FALSE, collection, registry)
    ELSE Mutation(TRUE, CollectionDelete(doc_id), registry)

\* clear_collection that does not make the collection again
ClearWithoutCreate(delete_ok, create_ok) ==
    IF ~delete_ok \/ ~Live THEN Mutation(FALSE, collection, registry)
    ELSE Mutation(create_ok, << >>, NoCollection)

\* clear_collection: client.delete_collection, which raises when the client
\* holds no collection of the name, then client.create_collection; when that
\* raises the collection is gone and self.collection is the deleted one
clear_collection(delete_ok, create_ok) ==
    IF ~delete_ok \/ ~Live THEN Mutation(FALSE, collection, registry)
    ELSE IF ~create_ok THEN Mutation(FALSE, << >>, NoCollection)
    ELSE Mutation(TRUE, << >>, TheCollection)

\* get_collection_info: self.collection.count() raises on a collection that
\* is gone, and "except Exception" answers count 0
get_collection_info ==
    IF Live
    THEN [name |-> CHROMA_COLLECTION_NAME, count |-> Count,
          embedding_model |-> EMBEDDING_MODEL, db_path |-> CHROMA_DB_PATH]
    ELSE [name |-> CHROMA_COLLECTION_NAME, count |-> 0,
          embedding_model |-> EMBEDDING_MODEL]

\* the arguments of update_document and delete_document: ids of the pool and
\* one that is never stored; a new content and the metadata made for it under
\* the id of the first chunk of the pool
UnknownId == Uuid4(0)
DeleteIds == {Uuid4(n) : n \in 0..MaxRecords}
UpdateIds == {UnknownId, DbChunk(1).metadata.id, DbChunk(2).metadata.id}
UpdatedContent == <<"b">>
UpdatedMetadata == create_chunk_metadata(UpdatedContent, 0, MainPath, DbChunk(1).metadata.id)

\* what op_out keeps of an add_documents call
AddCall(size, store, out) ==
    [kind |-> "add", size |-> size,
     grown |-> Cardinality(DOMAIN store) - Count, out |-> out]

\* add_documents([]): "if not chunks: return False"
AddNothing ==
    /\ add_out' = FALSE
    /\ op_out' = AddCall(0, collection, FALSE)
    /\ search_out' = NoSearch
    /\ UNCHANGED <<collection, registry, race>>
    /\ UNCHANGED <<chunkVars, fileVars, runVars, appVars>>

\* add_documents(chunks): generate_embeddings or collection.add raises, which
\* either may do on any batch; "except Exception" returns False
AddFails ==
    \E batch \in Batches :
        /\ batch # << >>
        /\ add_out' = FALSE
        /\ op_out' = AddCall(Len(batch), collection, FALSE)
        /\ search_out' = NoSearch
        /\ UNCHANGED <<collection, registry, race>>
        /\ UNCHANGED <<chunkVars, fileVars, runVars, appVars>>

\* add_documents(chunks): collection.add goes through.  (A Chroma version
\* that refuses an id already stored raises instead: AddFails.)
AddStores ==
    \E batch \in Batches :
        /\ batch # << >>
        /\ Live
        /\ BatchIdsDistinct(batch)
        /\ collection' = CollectionAdd(batch)
        /\ add_out' = TRUE
        /\ op_out' = AddCall(Len(batch), CollectionAdd(batch), TRUE)
        /\ search_out' = NoSearch
        /\ UNCHANGED <<registry, race>>
        /\ UNCHANGED <<chunkVars, fileVars, runVars, appVars>>

\* update_document(doc_id, content, metadata)
UpdateDocument ==
    \E doc_id \in UpdateIds, embed_ok, store_ok \in BOOLEAN :
        \E metadata \in {UpdatedMetadata} :
            LET m == update_document(doc_id, UpdatedContent, metadata, embed_ok, store_ok)
            IN  /\ collection' = m.collection
                /\ registry' = m.registry
                /\ op_out' = [kind |-> "update", id |-> doc_id, metadata |-> metadata,
                              stored |-> doc_id \in DOMAIN collection,
                              ok |-> embed_ok /\ store_ok /\ Live,
                              changed |-> m.collection # collection, out |-> m.out]
                /\ add_out' = "none"
                /\ search_out' = NoSearch
                /\ UNCHANGED race
                /\ UNCHANGED <<chunkVars, fileVars, runVars, appVars>>

\* delete_document(doc_id)
DeleteDocument ==
    \E doc_id \in DeleteIds, store_ok \in BOOLEAN :
        LET m == delete_document(doc_id, store_ok)
        IN  /\ collection' = m.collection
            /\ registry' = m.registry
            /\ op_out' = [kind |-> "delete", id |-> doc_id,
                          stored |-> doc_id \in DOMAIN collection,
                          ok |-> store_ok /\ Live,
                          kept |-> /\ DOMAIN m.collection \subseteq DOMAIN collection
                                   /\ \A id \in DOMAIN collection \ {doc_id} :
                                      /\ id \in DOMAIN m.collection
                                      /\ m.collection[id] = collection[id],
                          changed |-> m.collection # collection,
                          again |-> /\ op_out.kind = "delete"
                                    /\ op_out.id = doc_id
                                    /\ op_out.stored
                                    /\ op_out.out,
                          out |-> m.out]
            /\ add_out' = "none"
            /\ search_out' = NoSearch
            /\ UNCHANGED race
            /\ UNCHANGED <<chunkVars, fileVars, runVars, appVars>>

\* clear_collection()
ClearCollection ==
    \E delete_ok, create_ok \in BOOLEAN :
        LET m == clear_collection(delete_ok, create_ok)
        IN  /\ collection' = m.collection
            /\ registry' = m.registry
            /\ op_out' = [kind |-> "clear", ok |-> delete_ok /\ create_ok /\ Live,
                          emptied |-> Count,
                          again |-> op_out.kind = "clear" /\ op_out.out,
                          emptied_before |-> IF op_out.kind = "clear" /\ op_out.out
                                             THEN op_out.emptied ELSE 0,
                          out |-> m.out]
            /\ add_out' = "none"
            /\ search_out' = NoSearch
            /\ UNCHANGED race
            /\ UNCHANGED <<chunkVars, fileVars, runVars, appVars>>

\* what search_out keeps of a call
SearchCall(query, n_results, embed_ok, store_ok, order) ==
    [kind |-> "call", query |-> query, n_results |-> n_results, embed_ok |-> embed_ok,
     store_ok |-> store_ok,
     out |-> search_similar_documents(query, n_results, embed_ok, store_ok, order)]

\* a search leaves the store as it is
SearchFrame ==
    /\ add_out' = "none"
    /\ op_out' = NoResult
    /\ UNCHANGED <<collection, registry, race>>
    /\ UNCHANGED <<chunkVars, fileVars, runVars, appVars>>

\* search_similar_documents(query, n_results), query empty or all whitespace
SearchBlank ==
    \E query \in Queries, n_results \in NResults, ok \in BOOLEAN :
        /\ IsBlankQuery(query)
        /\ search_out' = SearchCall(query, n_results, ok, ok, << >>)
        /\ SearchFrame

\* ... generate_embeddings raises
SearchEmbeddingFails ==
    \E query \in Queries, n_results \in NResults :
        /\ ~IsBlankQuery(query)
        /\ search_out' = SearchCall(query, n_results, FALSE, TRUE, << >>)
        /\ SearchFrame

\* ... the collection raises: a failure of the store, a collection that is
\* gone, or n_results <= 0 asked
SearchStoreFails ==
    \E query \in Queries, n_results \in NResults, store_ok \in BOOLEAN :
        /\ ~IsBlankQuery(query)
        /\ ~store_ok \/ Min(n_results, Count) <= 0
        /\ search_out' = SearchCall(query, n_results, TRUE, store_ok, << >>)
        /\ SearchFrame

\* ... the collection answers
SearchAnswers ==
    \E query \in Queries, n_results \in NResults :
        /\ ~IsBlankQuery(query)
        /\ Min(n_results, Count) > 0
        /\ \E order \in Rankings(Embed(query), Min(n_results, Count)) :
            search_out' = SearchCall(query, n_results, TRUE, TRUE, order)
        /\ SearchFrame

NextSearch ==
    \/ AddNothing
    \/ AddFails
    \/ AddStores
    \/ UpdateDocument
    \/ DeleteDocument
    \/ ClearCollection
    \/ SearchBlank
    \/ SearchEmbeddingFails
    \/ SearchStoreFails
    \/ SearchAnswers

SpecSearch == InitSearch /\ [][NextSearch]_vars

-----------------------------------------------------------------------------------------------------------------------------------------------------
(* search_similar_documents beside a call that changes the collection.  The   *)
(* search reads the collection twice, self.collection.count() and then        *)
(* self.collection.query(); each call of the Chroma client is one step, and   *)
(* the other caller's steps come before, between or after the two.            *)

\* what search_similar_documents(query, n_results) may return when it runs
\* alone on the store as it is now
SequentialResults(query, n_results) ==
    {search_similar_documents(query, n_results, TRUE, TRUE, order).value :
        order \in Rankings(Embed(query), Min(n_results, Count))}

\* the search has evaluated self.collection.count(); no call has changed the
\* collection since
RaceCounts ==
    \E query \in Queries, n_results \in 1..MaxResults :
        /\ race = NoResult
        /\ ~IsBlankQuery(query)
        /\ race' = [kind |-> "counted", query |-> query, n_results |-> n_results,
                    count |-> IF Live THEN Count ELSE 0,
                    pre |-> SequentialResults(query, n_results),
                    mutation |-> "none"]
        /\ add_out' = "none"
        /\ op_out' = NoResult
        /\ search_out' = NoSearch
        /\ UNCHANGED <<collection, registry>>
        /\ UNCHANGED <<chunkVars, fileVars, runVars, appVars>>

\* the other caller may begin its call
CanMutate == race.kind = "counted" /\ race.mutation = "none"

\* the rest of a step of the other caller
RaceFrame(mutation) ==
    /\ race' = [race EXCEPT !.mutation = mutation]
    /\ add_out' = "none"
    /\ op_out' = NoResult
    /\ search_out' = NoSearch
    /\ UNCHANGED <<chunkVars, fileVars, runVars, appVars>>

\* add_documents(batch) by the other caller: collection.add
RaceAdd ==
    \E batch \in Batches :
        /\ CanMutate
        /\ batch # << >>
        /\ Live
        /\ BatchIdsDistinct(batch)
        /\ collection' = CollectionAdd(batch)
        /\ UNCHANGED registry
        /\ RaceFrame("add")

\* update_document by the other caller: collection.update
RaceUpdate ==
    \E doc_id \in UpdateIds :
        /\ CanMutate
        /\ Live
        /\ collection' = update_document(doc_id, UpdatedContent, UpdatedMetadata,
                                         TRUE, TRUE).collection
        /\ UNCHANGED registry
        /\ RaceFrame("update")

\* delete_document by the other caller: collection.delete
RaceDelete ==
    \E doc_id \in DeleteIds :
        /\ CanMutate
        /\ Live
        /\ collection' = delete_document(doc_id, TRUE).collection
        /\ UNCHANGED registry
        /\ RaceFrame("delete")

\* clear_collection by the other caller, its first call: client.delete_collection
RaceClearDeletes ==
    /\ CanMutate
    /\ Live
    /\ collection' = clear_collection(TRUE, FALSE).collection
    /\ registry' = clear_collection(TRUE, FALSE).registry
    /\ RaceFrame("clearing")

\* ... its second call: client.create_collection, and self.collection rebound
RaceClearCreates ==
    /\ race.kind = "counted"
    /\ race.mutation = "clearing"
    /\ collection' = << >>
    /\ registry' = TheCollection
    /\ RaceFrame("clear")

\* the search evaluates self.collection.query(n_results = min(n_results, the
\* count it read)) and returns.  The collection answers with the nearest
\* records it holds now, as many as asked or as it has; it raises when asked
\* for none and when it is gone, and "except Exception" returns the empty result.
RaceQueries ==
    /\ race.kind = "counted"
    /\ \E order \in Rankings(Embed(race.query),
                             Min(Min(race.n_results, race.count), Count)) :
        race' = [kind |-> "done", query |-> race.query, n_results |-> race.n_results,
                 count |-> race.count, pre |-> race.pre, mutation |-> race.mutation,
                 post |-> IF race.mutation = "clearing" THEN {EmptyResult}
                          ELSE SequentialResults(race.query, race.n_results),
                 out |-> search_similar_documents(race.query,
                                                  Min(race.n_results, race.count),
                                                  TRUE, Live, order).value]
    /\ add_out' = "none"
    /\ op_out' = NoResult
    /\ search_out' = NoSearch
    /\ UNCHANGED <<collection, registry>>
    /\ UNCHANGED <<chunkVars, fileVars, runVars, appVars>>

\* the calls that fill the store, one after the other
BeforeRace == race = NoResult

NextRace ==
    \/ BeforeRace /\ AddStores
    \/ BeforeRace /\ UpdateDocument
    \/ BeforeRace /\ DeleteDocument
    \/ BeforeRace /\ ClearCollection
    \/ RaceCounts
    \/ RaceAdd
    \/ RaceUpdate
    \/ RaceDelete
    \/ RaceClearDeletes
    \/ RaceClearCreates
    \/ RaceQueries

SpecRace == InitSearch /\ [][NextRace]_vars

-----------------------------------------------------------------------------
(* The handlers query_documents, search_documents and reload_documents of     *)
(* main.py.  The handlers are "async def" without an await: each runs to its  *)
(* end before another begins.  startup_event leaves the globals vector_db and *)
(* document_processor None (the two constructions are commented out); the     *)
(* handlers are modelled for both, the globals as startup_event leaves them   *)
(* and the globals bound to the instances those two lines construct.          *)

\* vector_db = VectorDatabase(), document_processor = DocumentProcessor()
Bound == "bound"

\* Config.LLMS_FILE_PATH
LLMS_FILE_PATH == MainPath

\* the look for the file left out
ExistsAlways(path) == TRUE

\* os.path.exists(path): a file or a directory is there
Exists(path) == fs[path].kind # "missing"

\* the answer of a handler: the returned body with status 200, or the
\* HTTPException raised
Http(endpoint, request, status, body) ==
    [kind |-> "http", endpoint |-> endpoint, request |-> request, status |-> status,
     body |-> body]

\* the request of an endpoint without arguments
NoArguments == << >>

\* the results loop with "rank": i
RankFromZero(results) ==
    LET n == Min(Len(results.documents),
                 Min(Len(results.metadatas), Len(results.distances)))
    IN  [k \in 1..n |->
            [rank |-> k - 1,
             content |-> results.documents[k],
             metadata |-> results.metadatas[k],
             similarity_score |-> 1 - results.distances[k]]]

\* search_documents: for i, (doc, metadata, distance) in enumerate(zip(...)),
\* the k-th triple having i = k - 1
FormatResults(results) ==
    LET n == Min(Len(results.documents),
                 Min(Len(results.metadatas), Len(results.distances)))
    IN  [k \in 1..n |->
            [rank |-> (k - 1) + 1,
             content |-> results.documents[k],
             metadata |-> results.metadatas[k],
             similarity_score |-> 1 - results.distances[k]]]

\* query_documents: the same loop building the sources
FormatSources(results) ==
    LET n == Min(Len(results.documents),
                 Min(Len(results.metadatas), Len(results.distances)))
    IN  [k \in 1..n |->
            [rank |-> (k - 1) + 1,
             content_preview |-> results.documents[k],
             source |-> results.metadatas[k].source,
             chunk_id |-> results.metadatas[k].chunk_id,
             similarity_score |-> 1 - results.distances[k],
             tokens |-> results.metadatas[k].tokens]]

\* the answers the collection may give to a search for n results
Orders(query, n) ==
    IF ~IsBlankQuery(query) /\ Min(n, Count) > 0
    THEN Rankings(Embed(query), Min(n, Count))
    ELSE {<< >>}

\* "limit: int = Query(5, ge=1, le=20)": the values the framework lets through
Limits == 1..MaxResults

\* max_results of a QueryRequest: any integer
MaxResultsAsked == 0..MaxResults

\* the questions and queries of the requests
Asked == {q \in Queries : Len(q) <= 2}

\* the ways a search goes: well, generate_embeddings raises, the collection raises
SearchWays == {<<TRUE, TRUE>>, <<FALSE, TRUE>>, <<TRUE, FALSE>>}

Idle == handler = "idle"

\* a handler that calls nothing on vector_db and document_processor
NothingCalled ==
    /\ add_out' = "none"
    /\ search_out' = NoSearch
    /\ op_out' = NoResult
    /\ UNCHANGED <<collection, registry, race>>
    /\ UNCHANGED <<chunkVars, fileVars, runVars>>
    /\ UNCHANGED <<services, handler>>

\* POST /query, question empty or whitespace: the HTTPException with status
\* 400 is raised inside the try block, whose only handler, "except Exception",
\* catches it and raises the HTTPException with status 500
QueryDocumentsBlank ==
    \E question \in Asked :
        /\ Idle
        /\ Strip(question) = << >>
        /\ response' = Http("/query", question, 500, <<"Error al procesar consulta", 400>>)
        /\ gemini_calls' = 0
        /\ NothingCalled

\* POST /query while vector_db is None: the AttributeError becomes status 500
QueryDocumentsUnbound ==
    \E question \in Asked :
        /\ Idle
        /\ Strip(question) # << >>
        /\ services = Unbound
        /\ response' = Http("/query", question, 500, <<"Error al procesar consulta", "AttributeError">>)
        /\ gemini_calls' = 0
        /\ NothingCalled

\* POST /query: the search on the stripped question, generate_response and
\* suggest_follow_up_questions (neither raises), the sources
QueryDocumentsAnswers ==
    \E question \in Asked, max_results \in MaxResultsAsked, way \in SearchWays :
        /\ Idle
        /\ Strip(question) # << >>
        /\ services = Bound
        /\ \E order \in Orders(Strip(question), max_results) :
              search_out' = SearchCall(Strip(question), max_results, way[1], way[2], order)
        /\ gemini_calls' = 2
        /\ response' = Http("/query", question, 200, [question |-> Strip(question),
                                  context |-> search_out'.out.value.documents,
                                  sources |-> FormatSources(search_out'.out.value)])
        /\ add_out' = "none"
        /\ op_out' = NoResult
        /\ UNCHANGED <<collection, registry, race>>
        /\ UNCHANGED <<chunkVars, fileVars, runVars>>
        /\ UNCHANGED <<services, handler>>

\* GET /search, q empty or whitespace: status 400, passed on by
\* "except HTTPException: raise"
SearchDocumentsBlank ==
    \E q \in Asked :
        /\ Idle
        /\ Strip(q) = << >>
        /\ response' = Http("/search", q, 400, <<"La consulta no puede estar vacia">>)
        /\ gemini_calls' = 0
        /\ NothingCalled

\* GET /search while vector_db is None
SearchDocumentsUnbound ==
    \E q \in Asked :
        /\ Idle
        /\ Strip(q) # << >>
        /\ services = Unbound
        /\ response' = Http("/search", q, 500, <<"Error en busqueda", "AttributeError">>)
        /\ gemini_calls' = 0
        /\ NothingCalled

\* GET /search: the search on q as it came, and the formatted results
SearchDocumentsAnswers ==
    \E q \in Asked, limit \in Limits, way \in SearchWays :
        /\ Idle
        /\ Strip(q) # << >>
        /\ services = Bound
        /\ \E order \in Orders(q, limit) :
              search_out' = SearchCall(q, limit, way[1], way[2], order)
        /\ gemini_calls' = 0
        /\ response' = Http("/search", q, 200, [query |-> q,
                                  total_results |-> Len(FormatResults(search_out'.out.value)),
                                  results |-> FormatResults(search_out'.out.value)])
        /\ add_out' = "none"
        /\ op_out' = NoResult
        /\ UNCHANGED <<collection, registry, race>>
        /\ UNCHANGED <<chunkVars, fileVars, runVars>>
        /\ UNCHANGED <<services, handler>>

\* what op_out keeps of the clear_collection call a reload begins with: the
\* ids stored before it, and what it returned
ReloadCall(before, cleared) == [kind |-> "reload", before |-> before, cleared |-> cleared]

\* a behaviour holds one load of the file by reload_documents or by
\* initialize_database; the loads before it are in the collection InitApp starts with
CanReload == Idle /\ calls = << >>

\* POST /reload-documents, no file at Config.LLMS_FILE_PATH: status 404,
\* passed on by "except HTTPException: raise"
ReloadDocumentsMissing ==
    /\ Idle
    /\ ~Exists(LLMS_FILE_PATH)
    /\ response' = Http("/reload-documents", NoArguments, 404, <<"Archivo no encontrado">>)
    /\ gemini_calls' = 0
    /\ NothingCalled

\* POST /reload-documents while vector_db is None
ReloadDocumentsUnbound ==
    /\ Idle
    /\ Exists(LLMS_FILE_PATH)
    /\ services = Unbound
    /\ response' = Http("/reload-documents", NoArguments, 500, <<"Error al recargar documentos", "AttributeError">>)
    /\ gemini_calls' = 0
    /\ NothingCalled

\* POST /reload-documents: vector_db.clear_collection(), whose result is not
\* looked at, then process_llms_file, where read_file raises
ReloadDocumentsReadFails ==
    \E delete_ok, create_ok \in BOOLEAN :
        LET m == clear_collection(delete_ok, create_ok)
        IN  /\ CanReload
            /\ Exists(LLMS_FILE_PATH)
            /\ services = Bound
            /\ read_file(fs[LLMS_FILE_PATH]).kind = "raised"
            /\ collection' = m.collection
            /\ registry' = m.registry
            /\ op_out' = ReloadCall(DOMAIN collection, m.out)
            /\ file_path' = LLMS_FILE_PATH
            /\ calls' = Append(calls, LLMS_FILE_PATH)
            /\ result' = read_file(fs[LLMS_FILE_PATH])
            /\ response' = Http("/reload-documents", NoArguments, 500, <<"Error al recargar documentos",
                                       read_file(fs[LLMS_FILE_PATH]).type>>)
            /\ gemini_calls' = 0
            /\ add_out' = "none"
            /\ search_out' = NoSearch
            /\ UNCHANGED <<fs, all_ids, next_uuid, race, services, handler>>
            /\ UNCHANGED <<chunkVars, runVars>>

\* ... read_file returns the content, and create_chunks begins
ReloadDocumentsReads ==
    \E delete_ok, create_ok \in BOOLEAN :
        LET m == clear_collection(delete_ok, create_ok)
        IN  /\ CanReload
            /\ Exists(LLMS_FILE_PATH)
            /\ services = Bound
            /\ read_file(fs[LLMS_FILE_PATH]).kind = "returned"
            /\ collection' = m.collection
            /\ registry' = m.registry
            /\ op_out' = ReloadCall(DOMAIN collection, m.out)
            /\ file_path' = LLMS_FILE_PATH
            /\ calls' = Append(calls, LLMS_FILE_PATH)
            /\ handler' = "reload"
            /\ response' = NoResult
            /\ gemini_calls' = 0
            /\ add_out' = "none"
            /\ search_out' = NoSearch
            /\ text' = read_file(fs[LLMS_FILE_PATH]).value
            /\ paragraphs' = SplitParagraphs(text')
            /\ pidx' = 1
            /\ sentences' = << >>
            /\ sidx' = 1
            /\ current_chunk' = << >>
            /\ current_tokens' = 0
            /\ chunks' = << >>
            /\ starts' = << >>
            /\ cur_start' = NoStart
            /\ flushed_tokens' = << >>
            /\ pc' = "paragraphs"
            /\ UNCHANGED <<chunk_size, fs, result, all_ids, next_uuid, race, services>>
            /\ UNCHANGED runVars

\* ... after create_chunks: process_file raises on an empty chunk list, or
\* add_documents returns False (generate_embeddings or collection.add raises,
\* the latter also when the collection is gone): status 500
ReloadDocumentsFails ==
    \E embed_ok, store_ok \in BOOLEAN :
        LET processed == ProcessedChunks(chunks, file_path, next_uuid)
        IN  /\ handler = "reload"
            /\ pc = "returned"
            /\ Len(processed) = 0 \/ ~embed_ok \/ ~store_ok \/ ~Live
            /\ result' = IF Len(processed) = 0
                         THEN Raised("ValueError", <<"min() arg is an empty sequence">>)
                         ELSE Returned_(processed)
            /\ add_out' = IF Len(processed) = 0 THEN "none" ELSE FALSE
            /\ response' = IF Len(processed) = 0
                           THEN Http("/reload-documents", NoArguments, 500, <<"Error al recargar documentos", "ValueError">>)
                           ELSE Http("/reload-documents", NoArguments, 500, <<"Error al cargar documentos en la base de datos">>)
            /\ all_ids' = all_ids \o [k \in 1..Len(processed) |-> processed[k].metadata.id]
            /\ next_uuid' = next_uuid + Len(chunks)
            /\ pc' = "idle"
            /\ handler' = "idle"
            /\ UNCHANGED <<chunk_size, text, paragraphs, pidx, sentences, sidx,
                           current_chunk, current_tokens, chunks, starts, cur_start,
                           flushed_tokens>>
            /\ UNCHANGED <<fs, file_path, calls>>
            /\ UNCHANGED <<collection, search_out, registry, op_out, race>>
            /\ UNCHANGED <<runVars, services, gemini_calls>>

\* ... add_documents returns True: get_collection_info, and status 200 with
\* total_chunks = len(chunks) and collection_documents = info["count"]
ReloadDocumentsLoads ==
    LET processed == ProcessedChunks(chunks, file_path, next_uuid)
    IN  /\ handler = "reload"
        /\ pc = "returned"
        /\ Len(processed) > 0
        /\ Live
        /\ collection' = CollectionAdd(processed)
        /\ add_out' = TRUE
        /\ result' = Returned_(processed)
        /\ response' = Http("/reload-documents", NoArguments, 200, [message |-> "Documentos recargados exitosamente",
                                  total_chunks |-> Len(processed),
                                  collection_documents |->
                                      Cardinality(DOMAIN CollectionAdd(processed)),
                                  file_path |-> LLMS_FILE_PATH])
        /\ all_ids' = all_ids \o [k \in 1..Len(processed) |-> processed[k].metadata.id]
        /\ next_uuid' = next_uuid + Len(chunks)
        /\ pc' = "idle"
        /\ handler' = "idle"
        /\ UNCHANGED <<chunk_size, text, paragraphs, pidx, sentences, sidx,
                       current_chunk, current_tokens, chunks, starts, cur_start,
                       flushed_tokens>>
        /\ UNCHANGED <<fs, file_path, calls>>
        /\ UNCHANGED <<search_out, registry, op_out, race>>
        /\ UNCHANGED <<runVars, services, gemini_calls>>

-----------------------------------------------------------------------------
(* initialize_database of setup.py: its own DocumentProcessor() and            *)
(* VectorDatabase(), then the steps of reload_documents without the look for   *)
(* the file                                                                    *)

\* what initialize_database returns, with what it printed of the load
SetupReturns(out, body) == [kind |-> "setup", out |-> out, body |-> body]

\* VectorDatabase() and then clear_collection(): get_or_create_collection
\* makes the collection again when the client holds none
ConstructAndClear(delete_ok, create_ok) ==
    IF Live THEN clear_collection(delete_ok, create_ok)
    ELSE IF ~delete_ok THEN Mutation(FALSE, << >>, TheCollection)
    ELSE IF ~create_ok THEN Mutation(FALSE, << >>, NoCollection)
    ELSE Mutation(TRUE, << >>, TheCollection)

\* DocumentProcessor() or VectorDatabase() raises: return False
InitializeDatabaseConstructFails ==
    /\ Idle
    /\ response' = SetupReturns(FALSE, <<"Error al inicializar base de datos">>)
    /\ gemini_calls' = 0
    /\ NothingCalled

\* clear_collection(), whose result is not looked at, then process_llms_file
\* raises: the file is missing, unreadable or blank
InitializeDatabaseReadFails ==
    \E delete_ok, create_ok \in BOOLEAN :
        LET m == ConstructAndClear(delete_ok, create_ok)
        IN  /\ CanReload
            /\ read_file(fs[LLMS_FILE_PATH]).kind = "raised"
            /\ collection' = m.collection
            /\ registry' = m.registry
            /\ op_out' = ReloadCall(DOMAIN collection, m.out)
            /\ file_path' = LLMS_FILE_PATH
            /\ calls' = Append(calls, LLMS_FILE_PATH)
            /\ result' = read_file(fs[LLMS_FILE_PATH])
            /\ response' = SetupReturns(FALSE, <<"Error al inicializar base de datos",
                                                 read_file(fs[LLMS_FILE_PATH]).type>>)
            /\ gemini_calls' = 0
            /\ add_out' = "none"
            /\ search_out' = NoSearch
            /\ UNCHANGED <<fs, all_ids, next_uuid, race, services, handler>>
            /\ UNCHANGED <<chunkVars, runVars>>

\* ... read_file returns the content, and create_chunks begins
InitializeDatabaseReads ==
    \E delete_ok, create_ok \in BOOLEAN :
        LET m == ConstructAndClear(delete_ok, create_ok)
        IN  /\ CanReload
            /\ read_file(fs[LLMS_FILE_PATH]).kind = "returned"
            /\ collection' = m.collection
            /\ registry' = m.registry
            /\ op_out' = ReloadCall(DOMAIN collection, m.out)
            /\ file_path' = LLMS_FILE_PATH
            /\ calls' = Append(calls, LLMS_FILE_PATH)
            /\ handler' = "setup"
            /\ response' = NoResult
            /\ gemini_calls' = 0
            /\ add_out' = "none"
            /\ search_out' = NoSearch
            /\ text' = read_file(fs[LLMS_FILE_PATH]).value
            /\ paragraphs' = SplitParagraphs(text')
            /\ pidx' = 1
            /\ sentences' = << >>
            /\ sidx' = 1
            /\ current_chunk' = << >>
            /\ current_tokens' = 0
            /\ chunks' = << >>
            /\ starts' = << >>
            /\ cur_start' = NoStart
            /\ flushed_tokens' = << >>
            /\ pc' = "paragraphs"
            /\ UNCHANGED <<chunk_size, fs, result, all_ids, next_uuid, race, services>>
            /\ UNCHANGED runVars

\* ... after create_chunks: process_file raises on an empty chunk list, or
\* add_documents returns False: return False
InitializeDatabaseFails ==
    \E embed_ok, store_ok \in BOOLEAN :
        LET processed == ProcessedChunks(chunks, file_path, next_uuid)
        IN  /\ handler = "setup"
            /\ pc = "returned"
            /\ Len(processed) = 0 \/ ~embed_ok \/ ~store_ok \/ ~Live
            /\ result' = IF Len(processed) = 0
                         THEN Raised("ValueError", <<"min() arg is an empty sequence">>)
                         ELSE Returned_(processed)
            /\ add_out' = IF Len(processed) = 0 THEN "none" ELSE FALSE
            /\ response' = IF Len(processed) = 0
                           THEN SetupReturns(FALSE, <<"Error al inicializar base de datos",
                                                      "ValueError">>)
                           ELSE SetupReturns(FALSE, <<"Error al cargar documentos">>)
            /\ all_ids' = all_ids \o [k \in 1..Len(processed) |-> processed[k].metadata.id]
            /\ next_uuid' = next_uuid + Len(chunks)
            /\ pc' = "idle"
            /\ handler' = "idle"
            /\ UNCHANGED <<chunk_size, text, paragraphs, pidx, sentences, sidx,
                           current_chunk, current_tokens, chunks, starts, cur_start,
                           flushed_tokens>>
            /\ UNCHANGED <<fs, file_path, calls>>
            /\ UNCHANGED <<collection, search_out, registry, op_out, race>>
            /\ UNCHANGED <<runVars, services, gemini_calls>>

\* ... add_documents returns True: get_collection_info is printed, return True
InitializeDatabaseLoads ==
    LET processed == ProcessedChunks(chunks, file_path, next_uuid)
    IN  /\ handler = "setup"
        /\ pc = "returned"
        /\ Len(processed) > 0
        /\ Live
        /\ collection' = CollectionAdd(processed)
        /\ add_out' = TRUE
        /\ result' = Returned_(processed)
        /\ response' = SetupReturns(TRUE, [total_chunks |-> Len(processed),
                                           collection_documents |->
                                               Cardinality(DOMAIN CollectionAdd(processed))])
        /\ all_ids' = all_ids \o [k \in 1..Len(processed) |-> processed[k].metadata.id]
        /\ next_uuid' = next_uuid + Len(chunks)
        /\ pc' = "idle"
        /\ handler' = "idle"
        /\ UNCHANGED <<chunk_size, text, paragraphs, pidx, sentences, sidx,
                       current_chunk, current_tokens, chunks, starts, cur_start,
                       flushed_tokens>>
        /\ UNCHANGED <<fs, file_path, calls>>
        /\ UNCHANGED <<search_out, registry, op_out, race>>
        /\ UNCHANGED <<runVars, services, gemini_calls>>

-----------------------------------------------------------------------------
(* The application: the server's handlers and the setup script, one at a time *)

\* the documents at Config.LLMS_FILE_PATH, and the values of CHUNK_SIZE the
\* environment sets
AppDocs == {<<"a">>, <<" ", "\n">>, <<"a", ".", "b", ".", "\n", "\n", "\n", "\n", "a">>}
AppChunkSizes == {2, CHUNK_SIZE}

\* the collection holding the first k chunks of the pool
StoreOf(k) ==
    [id \in {DbChunk(n).metadata.id : n \in 1..k} |->
        Record(CHOOSE c \in ChunkPool : c.metadata.id = id)]

\* the application after startup: a stored collection from an earlier load,
\* whose uuid4 values were drawn before
InitApp ==
    /\ chunk_size \in AppChunkSizes
    /\ \E entry \in {Missing, Unreadable} \cup {File(doc) : doc \in AppDocs} :
        fs = [p \in Paths |-> IF p = LLMS_FILE_PATH THEN entry ELSE Missing]
    /\ file_path = << >>
    /\ result = NoResult
    /\ all_ids = << >>
    /\ next_uuid = MaxRecords
    /\ calls = << >>
    /\ text = << >>
    /\ paragraphs = << >>
    /\ pidx = 1
    /\ sentences = << >>
    /\ sidx = 1
    /\ current_chunk = << >>
    /\ current_tokens = 0
    /\ chunks = << >>
    /\ starts = << >>
    /\ cur_start = NoStart
    /\ flushed_tokens = << >>
    /\ pc = "idle"
    /\ collection \in {StoreOf(k) : k \in 0..MaxBatch}
    /\ add_out = "none"
    /\ search_out = NoSearch
    /\ registry = TheCollection
    /\ op_out = NoResult
    /\ race = NoResult
    /\ NoRun
    /\ services \in {Unbound, Bound}
    /\ handler = "idle"
    /\ response = NoResult
    /\ gemini_calls = 0

NextApp ==
    \/ QueryDocumentsBlank
    \/ QueryDocumentsUnbound
    \/ QueryDocumentsAnswers
    \/ SearchDocumentsBlank
    \/ SearchDocumentsUnbound
    \/ SearchDocumentsAnswers
    \/ ReloadDocumentsMissing
    \/ ReloadDocumentsUnbound
    \/ ReloadDocumentsReadFails
    \/ ReloadDocumentsReads
    \/ SkipEmptyParagraph
    \/ OversizedParagraph
    \/ ParagraphFits
    \/ ParagraphOverflows
    \/ SentenceOverflows
    \/ SentenceFits
    \/ SentencesDone
    \/ ReturnChunks
    \/ ReloadDocumentsFails
    \/ ReloadDocumentsLoads
    \/ InitializeDatabaseConstructFails
    \/ InitializeDatabaseReadFails
    \/ InitializeDatabaseReads
    \/ InitializeDatabaseFails
    \/ InitializeDatabaseLoads

SpecApp == InitApp /\ [][NextApp]_vars

-----
(* The chunker's claims *)

\* the text without its whitespace
NonWs(s) == SelectSeq(s, LAMBDA c : ~IsWs(c))

\* the chunk is one sentence
OneSentence(c) == split_into_sentences(c) = <<c>>

\* C1: every chunk returned by create_chunks has at most chunk_size tokens,
\* except a chunk that is exactly one sentence of more than chunk_size tokens.
C1_ChunksWithinBudget ==
    \A k \in 1..Len(chunks) :
        \/ count_tokens(chunks[k]) <= chunk_size
        \/ OneSentence(chunks[k])

\* chunk k without the overlap prefix injected at its start, whitespace removed
ChunkBody(k) ==
    LET words == Split(chunks[k])
    IN  Join(<< >>, SubSeq(words, starts[k].overlap + 1, Len(words)))

\* C2: the returned chunks, each without its injected overlap prefix, put
\* together in order are the text, up to whitespace: every paragraph and
\* sentence once, in the original order, none left out.
C2_ChunksReconstructText ==
    Returned => Join(<< >>, [k \in 1..Len(chunks) |-> ChunkBody(k)]) = NonWs(text)

C2_Witness ==
    /\ Returned
    /\ \E k \in 1..Len(chunks) : starts[k].overlap > 0
    /\ \E k \in 1..Len(chunks) : starts[k].indep
    /\ Len(chunks) >= 3

\* C3: every chunk after the first that was not started independently (after
\* the flush before an oversized paragraph) begins with the last n words of
\* the chunk before it, n = min(wordCount(previous chunk), 50).
C3_OverlapOfPrevious ==
    \A k \in 2..Len(chunks) :
        ~starts[k].indep =>
            LET prev == Split(chunks[k - 1])
                this == Split(chunks[k])
                n == Min(Len(prev), 50)
            IN  /\ Len(this) >= n
                /\ SubSeq(this, 1, n) = SubSeq(prev, Len(prev) - n + 1, Len(prev))

C3_Witness ==
    \E k \in 2..Len(chunks) :
        /\ ~starts[k].indep
        /\ Len(Split(chunks[k - 1])) > 50
        /\ \E j \in 2..Len(chunks) : starts[j].indep

\* every paragraph of the text has at most chunk_size tokens
AllParagraphsFit ==
    \A k \in 1..Len(paragraphs) : count_tokens(Strip(paragraphs[k])) <= chunk_size

\* one paragraph of such a text is packed greedily
GreedyStep ==
    (AtParagraph /\ Paragraph # << >> /\ AllParagraphsFit) =>
        IF current_tokens + count_tokens(Paragraph) <= chunk_size
        THEN /\ chunks' = chunks
             /\ current_chunk' = IF current_chunk = << >> THEN Paragraph
                                 ELSE current_chunk \o ParagraphSep \o Paragraph
        ELSE LET words == Split(current_chunk)
                 n == Min(Len(words), 50)
                 prefix == Join(<<" ">>, SubSeq(words, Len(words) - n + 1, Len(words)))
             IN  /\ chunks' = Append(chunks, Strip(current_chunk))
                 /\ current_chunk' = prefix \o ParagraphSep \o Paragraph

\* three paragraphs of 400 tokens, chunk_size 1000: two chunks
ThreeParagraphs ==
    (Returned /\ text = Doc400 /\ chunk_size = 1000) =>
        chunks = << WordsPara(0, 400) \o ParagraphSep \o WordsPara(400, 400),
                    WordsPara(750, 50) \o ParagraphSep \o WordsPara(800, 400) >>

\* C4: in a text whose paragraphs all have at most chunk_size tokens, a
\* paragraph joins the current chunk exactly when current_tokens plus its
\* tokens is at most chunk_size; otherwise the chunk is flushed and the next
\* one starts with the overlap prefix.  Three paragraphs of 400 tokens with
\* chunk_size 1000 give two chunks: paragraphs 1 and 2, then prefix and 3.
C4_GreedyPacking == [][GreedyStep]_vars /\ []ThreeParagraphs

C4_Witness ==
    /\ Returned
    /\ text = Doc400
    /\ chunk_size = 1000
    /\ Len(chunks) = 2
    /\ count_tokens(WordsPara(400, 400)) = 400

\* C19: count_tokens does not raise: on a text the tokenizer refuses it
\* returns twice the number of whitespace-delimited words of the text, and
\* create_chunks goes on to a complete chunk list.
C19_TokenizerFallback ==
    /\ \A k \in 1..Len(paragraphs) :
        EncodeFails(paragraphs[k]) =>
            count_tokens(Strip(paragraphs[k])) = 2 * Len(Split(paragraphs[k]))
    /\ \A k \in 1..Len(chunks) :
        (EncodeFails(chunks[k]) /\ OneSentence(chunks[k])) =>
            flushed_tokens[k] = 2 * Len(Split(chunks[k]))
    /\ (EncodeFails(text) /\ pc \in {"paragraphs", "sentences"}) => ENABLED NextChunks
    /\ (EncodeFails(text) /\ Returned) =>
        /\ Join(<< >>, [k \in 1..Len(chunks) |-> ChunkBody(k)]) = NonWs(text)
        /\ \E k \in 1..Len(chunks) : EncodeFails(chunks[k])

C19_Witness ==
    /\ Returned
    /\ text = DocUnencodable
    /\ chunks = << <<"a", " ", "#">>, <<"b", "!">>, <<"b", "!", " ", "a", " ", "b">> >>
    /\ flushed_tokens[1] = 4

-----------------------------------------------------------------------------
(* process_file's claims *)

\* process_file has returned a chunk list and no other call has begun
HasReturned == pc = "idle" /\ result.kind = "returned"

\* C5: the chunk_id values of the chunks process_file returns are 0, 1, ...,
\* n-1 in the order the chunks were emitted: no gap, no repetition.
C5_ChunkIdsContiguous ==
    HasReturned =>
        /\ Len(result.value) = Len(chunks)
        /\ \A k \in 1..Len(result.value) :
            /\ result.value[k].content = chunks[k]
            /\ result.value[k].metadata.chunk_id = k - 1

C5_Witness == HasReturned /\ Len(result.value) >= 3

\* C6: the metadata ids of all chunks ever returned, over every sequence of
\* process_file calls, are pairwise distinct.
C6_IdsDistinct ==
    \A i, j \in 1..Len(all_ids) : i # j => all_ids[i] # all_ids[j]

C6_Witness ==
    /\ HasReturned
    /\ calls = <<MainPath, MainPath>>
    /\ Len(result.value) >= 2
    /\ Len(all_ids) = 2 * Len(result.value)

\* b is the base name of the path p: the part of p after its last "/"
IsBaseNameOf(b, p) ==
    /\ \A i \in 1..Len(b) : b[i] # "/"
    /\ Len(b) <= Len(p)
    /\ SubSeq(p, Len(p) - Len(b) + 1, Len(p)) = b
    /\ Len(b) = Len(p) \/ p[Len(p) - Len(b)] = "/"

\* C7: for every chunk process_file returns, metadata.tokens is
\* count_tokens(content) and metadata.characters the length of content, the
\* text as emitted (stripped, with its overlap prefix), whatever the counter
\* current_tokens held; metadata.source is the base name of source_path.
C7_MetadataOfContent ==
    HasReturned =>
        \A k \in 1..Len(result.value) :
            LET c == result.value[k].content
                m == result.value[k].metadata
            IN  /\ c = chunks[k]
                /\ m.tokens = count_tokens(c)
                /\ m.characters = Len(c)
                /\ m.source_path = file_path
                /\ IsBaseNameOf(m.source, m.source_path)

C7_Witness ==
    /\ HasReturned
    /\ \E k \in 1..Len(result.value) :
        /\ result.value[k].metadata.tokens # flushed_tokens[k]
        /\ result.value[k].metadata.source # result.value[k].metadata.source_path
    /\ \E k \in 1..Len(result.value) : starts[k].overlap > 0

\* the type of the exception process_file raises for a file it cannot read
ReadErrorType == read_file(Unreadable).type

\* C8: process_file fails with NotFound on a path that does not exist, and on
\* a file with no non-whitespace content with an error that can be told from
\* NotFound and from the other read errors; neither call returns chunks.
C8_LoadErrors ==
    (pc = "idle" /\ result.kind # "none") =>
        LET entry == fs[file_path]
        IN  /\ entry.kind = "missing" =>
                (result.kind = "raised" /\ result.type = "FileNotFoundError")
            /\ (entry.kind = "file" /\ Strip(entry.content) = << >>) =>
                /\ result.kind = "raised"
                /\ result.type \notin {"FileNotFoundError", ReadErrorType}

-----------------------------------------------------------------------------
(* search_similar_documents' claims *)

Searched == search_out.kind # "none"

\* C9: search_similar_documents with an empty or all-whitespace query returns
\* the empty result and does not raise, whatever is stored and whatever
\* n_results is, and calls neither the embedding model nor the collection.
C9_BlankQueryEmptyResult ==
    (Searched /\ \A i \in 1..Len(search_out.query) : IsWs(search_out.query[i])) =>
        /\ search_out.out.kind = "returned"
        /\ search_out.out.value = EmptyResult
        /\ search_out.out.embed_calls = 0
        /\ search_out.out.store_calls = 0

C9_Witness ==
    /\ Searched
    /\ search_out.query = <<"\n", " ">>
    /\ search_out.n_results = 2
    /\ Count = 3
    /\ search_out.out.value = EmptyResult

\* C10: search_similar_documents never raises: when generating the embedding
\* or querying the collection fails, for any query and n_results (n_results
\* <= 0 too), it returns the empty result.
C10_SearchNeverRaises ==
    Searched =>
        /\ search_out.out.kind = "returned"
        /\ (\/ search_out.out.embed_calls > 0 /\ ~search_out.embed_ok
            \/ search_out.out.store_calls > 0 /\ ~search_out.store_ok
            \/ search_out.out.store_calls > 0 /\ search_out.n_results <= 0)
           => search_out.out.value = EmptyResult

C10_Witness ==
    /\ Searched
    /\ Count = 2
    /\ search_out.n_results = 0
    /\ search_out.embed_ok
    /\ search_out.store_ok
    /\ search_out.out.store_calls > 0
    /\ search_out.out.value = EmptyResult

Max(a, b) == IF a >= b THEN a ELSE b

\* C11: after any sequence of add, update, delete and clear calls,
\* search_similar_documents(q, k) returns at most min(k, number of stored
\* records) results, documents, metadatas and distances of the same length;
\* on an empty store it returns the empty result and does not raise.
C11_ResultWithinCount ==
    Searched =>
        LET v == search_out.out.value
        IN  /\ search_out.out.kind = "returned"
            /\ Len(v.documents) = Len(v.metadatas)
            /\ Len(v.documents) = Len(v.distances)
            /\ Len(v.documents) <= Max(0, Min(search_out.n_results, Count))
            /\ Count = 0 => v = EmptyResult

C11_Witness ==
    /\ Searched
    /\ Count = 3
    /\ search_out.n_results = 2
    /\ Len(search_out.out.value.documents) = 2
    /\ \E id \in DOMAIN collection : collection[id].document = UpdatedContent

\* the one stored record whose content is the query, when no other stored
\* record has its vector
RoundTripRecords ==
    {id \in DOMAIN collection :
        /\ collection[id].document = search_out.query
        /\ \A other \in DOMAIN collection \ {id} :
              collection[other].embedding # collection[id].embedding}

\* C12: after add_documents stored a record with content c,
\* search_similar_documents(c, 1) returns that record as its single result,
\* with distance 0, when no other stored record has the same embedding.
C12_RoundTrip ==
    (/\ Searched
     /\ search_out.embed_ok
     /\ search_out.store_ok
     /\ search_out.n_results = 1) =>
        \A id \in RoundTripRecords :
            /\ search_out.out.value.documents = <<collection[id].document>>
            /\ search_out.out.value.metadatas = <<collection[id].metadata>>
            /\ search_out.out.value.distances = <<0>>

C12_Witness ==
    /\ Searched
    /\ search_out.embed_ok
    /\ search_out.store_ok
    /\ search_out.n_results = 1
    /\ Count = 2
    /\ \E id \in RoundTripRecords :
        /\ collection[id] = Record(DbChunk(1))
        /\ search_out.out.value.documents = <<PoolContent(1)>>

-----------------------------------------------------------------------------
(* The claims on the calls that change the collection *)

\* C13: clear_collection removes every record and succeeds on an empty
\* collection: after one call, and after a second call that follows it,
\* get_collection_info().count is 0, the collection exists under the same
\* name and embedding model, and add_documents and search work on it.
C13_ClearLeavesEmptyCollection ==
    (op_out.kind = "clear" /\ op_out.ok) =>
        /\ op_out.out = TRUE
        /\ Count = 0
        /\ get_collection_info.count = 0
        /\ Live
        /\ registry.name = get_collection_info.name
        /\ registry.embedding_model = get_collection_info.embedding_model
        /\ registry = TheCollection
        /\ ENABLED AddStores
        /\ ENABLED SearchStoreFails

C13_Witness ==
    /\ op_out.kind = "clear"
    /\ op_out.ok
    /\ op_out.again
    /\ op_out.emptied_before = 3
    /\ op_out.emptied = 0
    /\ op_out.out = TRUE

\* C14: delete_document(id) removes the record with that id, and no other
\* record changes; deleting an id that is not stored, the id just deleted
\* too, is not an error and leaves the store as it was.
C14_DeleteRemovesOneRecord ==
    (op_out.kind = "delete" /\ op_out.ok) =>
        /\ op_out.out = TRUE
        /\ op_out.id \notin DOMAIN collection
        /\ op_out.kept
        /\ op_out.changed = op_out.stored

C14_Witness ==
    /\ op_out.kind = "delete"
    /\ op_out.ok
    /\ op_out.again
    /\ ~op_out.stored
    /\ ~op_out.changed
    /\ op_out.out = TRUE
    /\ Count = 2

\* C15: update_document on an id that is not stored reports a failure, not
\* success, and leaves the store unchanged: no record is inserted and none
\* is modified.
C15_UpdateAbsentFails ==
    (op_out.kind = "update" /\ ~op_out.stored) =>
        /\ op_out.out = FALSE
        /\ ~op_out.changed

\* C16: add_documents returns True exactly when every record of the batch
\* was inserted, the stored count growing by the batch size, and False on a
\* failure; a call that returns False leaves the store unchanged.
C16_AddAllOrNothing ==
    op_out.kind = "add" =>
        /\ op_out.out = TRUE <=> (op_out.size > 0 /\ op_out.grown = op_out.size)
        /\ op_out.out = FALSE => op_out.grown = 0

\* C17: after any sequence of add_documents, update_document,
\* delete_document and clear_collection calls, the id under which a record
\* is stored is the id field of the metadata stored with it.
C17_KeyIsMetadataId ==
    \A id \in DOMAIN collection : collection[id].metadata.id = id

\* C18: a search_similar_documents call that runs beside an add_documents,
\* update_document, delete_document or clear_collection call on the same
\* collection returns a result it could return on the state before that
\* call or on the state after it.
C18_SearchSeesBeforeOrAfter ==
    race.kind = "done" => race.out \in race.pre \cup race.post


-----------------------------------------------------------------------------
(* The sentence splitter and the shape of the chunks *)

\* the terminal characters that str.strip() leaves at the end of a span
Marks == Terminals \ Whitespace

\* ss are the sentences of s: each non-empty, trimmed and with a terminal
\* character at most at its end; one sentence for each ".", "!" or "?" of s;
\* the text after the last terminal character is the last sentence; and the
\* sentences put together are s without its whitespace
SentencesCover(ss, s) ==
    LET ends == SelectSeq(Idx(s), LAMBDA i : s[i] \in Terminals)
        rest == Strip(SubSeq(s, IF Len(ends) = 0 THEN 1 ELSE ends[Len(ends)] + 1, Len(s)))
    IN  /\ \A k \in 1..Len(ss) :
              /\ ss[k] # << >>
              /\ Strip(ss[k]) = ss[k]
              /\ \A i \in 1..(Len(ss[k]) - 1) : ss[k][i] \notin Terminals
        /\ Cardinality({k \in 1..Len(ss) : ss[k][Len(ss[k])] \in Marks})
              = Cardinality({i \in 1..Len(s) : s[i] \in Marks})
        /\ rest # << >> => Len(ss) > 0 /\ ss[Len(ss)] = rest
        /\ NonWs(Join(<< >>, ss)) = NonWs(s)

\* C21: split_into_sentences emits a sentence at every ".", "!", "?" or
\* newline: every sentence is non-empty and trimmed and has a terminal
\* character only as its last character, text after the last terminal
\* character is the final sentence, and the sentences in order are the input
\* up to whitespace. Stated of the whole text and of the oversized paragraph
\* that create_chunks hands to the splitter.
C21_SentencesCoverText ==
    /\ SentencesCover(split_into_sentences(text), text)
    /\ pc = "sentences" => SentencesCover(sentences, Paragraph)

C21_Witness ==
    /\ pc = "sentences"
    /\ Len(sentences) = 3
    /\ sentences[1][Len(sentences[1])] \in Marks
    /\ \E i \in 1..Len(Paragraph) : Paragraph[i] = "\n"
    /\ Paragraph[Len(Paragraph)] \notin Terminals


\* s is in c, whole and in one piece
IsInfix(s, c) == \E i \in 0..(Len(c) - Len(s)) : SubSeq(c, i + 1, i + Len(s)) = s

\* chunk k from the first word after its overlap prefix, whitespace kept
BodyText(k) ==
    LET st == SelectSeq(Idx(chunks[k]), LAMBDA i : WordStartAt(chunks[k], i))
    IN  SubSeq(chunks[k], st[starts[k].overlap + 1], Len(chunks[k]))

IsOversized(p) == Strip(p) # << >> /\ count_tokens(Strip(p)) > chunk_size

\* what create_chunks packs: the sentences of an oversized paragraph, every
\* other non-empty paragraph as one piece
PiecesOf(p) ==
    IF Strip(p) = << >> THEN << >>
    ELSE IF IsOversized(p) THEN split_into_sentences(Strip(p))
    ELSE <<Strip(p)>>

RECURSIVE PiecesUpTo(_)
PiecesUpTo(n) == IF n = 0 THEN << >> ELSE PiecesUpTo(n - 1) \o PiecesOf(paragraphs[n])

\* where the pieces end, and where the chunk bodies end, counted in
\* non-whitespace characters from the start of the text
PieceEnds ==
    LET ps == PiecesUpTo(Len(paragraphs))
    IN  {Len(NonWs(Join(<< >>, SubSeq(ps, 1, j)))) : j \in 0..Len(ps)}

ChunkEnds ==
    {Len(Join(<< >>, [k \in 1..m |-> ChunkBody(k)])) : m \in 0..Len(chunks)}

WordsOf(s) == LET w == Split(s) IN {w[i] : i \in 1..Len(w)}

\* every sentence of an oversized paragraph, also one of more than chunk_size
\* tokens, is whole and in one piece inside the body of one chunk, and the
\* chunk bodies end where a sentence or a paragraph ends
SentencesWhole ==
    /\ \A p \in 1..Len(paragraphs) :
          IsOversized(paragraphs[p]) =>
              \A j \in 1..Len(PiecesOf(paragraphs[p])) :
                  \E k \in 1..Len(chunks) :
                      IsInfix(PiecesOf(paragraphs[p])[j], BodyText(k))
    /\ Join(<< >>, [k \in 1..Len(chunks) |-> ChunkBody(k)]) = NonWs(text)
    /\ ChunkEnds \subseteq PieceEnds

\* w is the word v, or a part of v cut out after terminal characters
CutAtMarks(w, v) ==
    \E i \in 0..(Len(v) - Len(w)) :
        /\ SubSeq(v, i + 1, i + Len(w)) = w
        /\ i = 0 \/ v[i] \in Marks
        /\ i + Len(w) = Len(v) \/ w[Len(w)] \in Marks

C23_ChunksTrimmed ==
    /\ \A k \in 1..Len(chunks) : chunks[k] # << >> /\ Strip(chunks[k]) = chunks[k]
    /\ Returned /\ NonWs(text) = << >> => chunks = << >>

C23_Witness ==
    /\ Returned
    /\ Len(chunks) >= 1
    /\ Len(text) >= 2
    /\ IsWs(text[1])
    /\ IsWs(text[Len(text)])
    /\ \E p \in 1..Len(paragraphs) : paragraphs[p] # << >> /\ Strip(paragraphs[p]) = << >>


-----------------------------------------------------------------------------
(* The callers' claims *)

\* the last request was answered by the handler of the endpoint with the status
Answered(endpoint, status) ==
    /\ response.kind = "http"
    /\ response.endpoint = endpoint
    /\ response.status = status

\* the entry is made from the k-th record the search returned: its rank is
\* k, its similarity 1 - distance, and a stored record has that content,
\* that metadata and that distance from the query
RankedEntry(entry, k, content, metadata) ==
    LET found == search_out.out.value
    IN  /\ entry.rank = k
        /\ entry.similarity_score = 1 - found.distances[k]
        /\ \E id \in DOMAIN collection :
              /\ collection[id].document = content
              /\ collection[id].metadata = found.metadatas[k]
              /\ metadata = found.metadatas[k]
              /\ Distance(Embed(search_out.query), collection[id].embedding)
                    = found.distances[k]

C25_VectorOfContent ==
    /\ \A id \in DOMAIN collection :
          collection[id].embedding = Embed(collection[id].document)
    /\ op_out.kind = "update" =>
          /\ op_out.out /\ op_out.stored =>
                collection[op_out.id] = [document |-> UpdatedContent,
                                         embedding |-> Embed(UpdatedContent),
                                         metadata |-> op_out.metadata]
          /\ ~op_out.ok => ~op_out.out /\ ~op_out.changed

C25_Witness ==
    /\ op_out.kind = "update"
    /\ op_out.out
    /\ op_out.stored
    /\ op_out.changed
    /\ collection[op_out.id].embedding = Embed(UpdatedContent)
    /\ \E id \in DOMAIN collection :
          collection[id].embedding # collection[op_out.id].embedding


\* C26: POST /query with an empty or whitespace-only question is answered
\* with status 400, and for it neither the search of the vector store nor
\* the generation client is called.
C26_BlankQuestionRefused ==
    /\ response.kind = "http"
    /\ response.endpoint = "/query"
    /\ Strip(response.request) = << >>
    => /\ response.status = 400
       /\ search_out = NoSearch
       /\ gemini_calls = 0


\* the last call was a reload that succeeded: POST /reload-documents answered
\* with status 200, or initialize_database returned True
Reloaded ==
    \/ Answered("/reload-documents", 200)
    \/ response.kind = "setup" /\ response.out

\* C27: when reload_documents (or initialize_database) returns success, the
\* collection holds exactly the chunks of the file as it is now, whatever it
\* held before: the stored record count equals the number of chunks produced
\* (collection_documents = total_chunks) and no record from before remains.
C27_ReloadReplacesCollection ==
    Reloaded =>
        /\ response.body.collection_documents = response.body.total_chunks
        /\ Count = Len(chunks)
        /\ DOMAIN collection \cap op_out.before = {}
        /\ \A k \in 1..Len(chunks) :
              \E id \in DOMAIN collection : collection[id].document = chunks[k]


\* C28: when there is no file at Config.LLMS_FILE_PATH, reload_documents
\* answers with status 404 and leaves the collection as it is: neither
\* clear_collection nor add_documents is called.
C28_MissingFileLeavesCollection ==
    [][(/\ Idle
        /\ fs[LLMS_FILE_PATH].kind = "missing"
        /\ response'.kind = "http"
        /\ response'.endpoint = "/reload-documents")
       => /\ response'.status = 404
          /\ collection' = collection
          /\ registry' = registry
          /\ op_out' = NoResult
          /\ add_out' = "none"]_vars

C28_Witness ==
    /\ Answered("/reload-documents", 404)
    /\ services = Bound
    /\ Count >= 2
    /\ op_out = NoResult


\* C29: for every document read_file accepts (one with a non-whitespace
\* character) and every chunk_size > 0, create_chunks returns at least one
\* chunk: process_file never takes min or max of an empty list and never
\* returns an empty batch for add_documents.
C29_AcceptedFileGivesChunks ==
    /\ chunk_size > 0
    /\ pc # "idle" => NonWs(text) # << >>
    /\ Returned => Len(chunks) >= 1
    /\ result.kind = "raised" => result.type # "ValueError"
    /\ result.kind = "returned" => Len(result.value) >= 1

C29_Witness ==
    /\ pc = "idle"
    /\ result.kind = "returned"
    /\ Len(result.value) = 1
    /\ Len(text) > Len(result.value[1].content)
    /\ chunk_size = 1

====
